---- MODULE Spec2Model ----
(***************************************************************************)
(* Model of the Veo relay backend.  The repository holds three versions of *)
(* the server:                                                             *)
(*   "rest"      src/server.js lines 1-382   (REST calls, in-memory store) *)
(*   "sdk"       src/server.js lines 384-711 (GenAI SDK, in-memory store)  *)
(*   "stateless" src/unnamed/part_000        (no store, id = encoded name) *)
(* A behaviour is one run of one of them; Init picks which.  Every await   *)
(* of a remote call splits a handler in two actions: the part up to the    *)
(* call and the part that runs when the answer arrives.                    *)
(* Strings the code takes apart (ids, remote job names) are sequences of   *)
(* one-character strings.  A JavaScript null or undefined is the empty     *)
(* sequence, a present value x is <<x>>.                                   *)
(***************************************************************************)
EXTENDS Integers, Sequences, FiniteSets, TLC

(* ------------------------------ bounds --------------------------------- *)
\* the attempt cap of monitorOperation (120 in the source), scaled down
maxAttempts == 2
\* requests received and interval firings of a run
MaxEvents == 3
\* largest value of Date.now()
MaxClock == 1

(* --------------------------- optional values --------------------------- *)
null == <<>>
Some(x) == <<x>>
IsNull(o) == o = <<>>
Truthy(o) == o # <<>> /\ o[1] # ""

(* --------------------------- poll responses ---------------------------- *)
\* json.response / op.response.  A missing object is null; uri "" stands for
\* a missing or empty uri.
\*   generateVideoResponse.generatedSamples[0].video.uri  -> gvr
\*   result.generatedVideos[0].video.uri                  -> resVideo
\*   result.generatedVideos[0].uri                        -> resUri
\*   generatedVideos[0].video.uri / .videoUri             -> sdkUri, sdkVideoUri
\* samples tells whether generateVideoResponse.generatedSamples is an array or
\* another object with a property 0.
MkResponse(g, rv, ru, su, sv) ==
  [gvr |-> g, resVideo |-> rv, resUri |-> ru, sdkUri |-> su, sdkVideoUri |-> sv,
   samples |-> "array"]
EmptyResponse == MkResponse("", "", "", "", "")
CanonicalResponse == MkResponse("files/abc", "", "", "", "")
AlternateResponse == MkResponse("", "", "files/alt", "", "")
SdkResponse == MkResponse("", "", "", "files/sdk", "")
\* responses that match several shapes at once
AllShapesResponse == MkResponse("files/abc", "files/mid", "files/alt", "", "")
BothResultsResponse == MkResponse("", "files/mid", "files/alt", "", "")
\* the canonical path with generatedSamples not an array
NonArrayResponse == [CanonicalResponse EXCEPT !.samples = "object"]

\* an answer of the remote to a poll
PollAnswer(k, d, r) == [kind |-> k, done |-> d, response |-> r]

\* json.response?.generateVideoResponse?.generatedSamples?.[0]?.video?.uri || null
RestVideoUri(response) ==
  IF IsNull(response) \/ response[1].gvr = "" THEN null ELSE Some(response[1].gvr)

\* videoObj?.uri || videoObj?.videoUri || null
SdkVideoUrl(response) ==
  IF IsNull(response) THEN null
  ELSE IF response[1].sdkUri # "" THEN Some(response[1].sdkUri)
  ELSE IF response[1].sdkVideoUri # "" THEN Some(response[1].sdkVideoUri)
  ELSE null

\* extractVideoUri without its fallbacks for the other shapes
extractVideoUri_CanonicalOnly(response) ==
  IF IsNull(response) THEN null
  ELSE IF response[1].samples = "array" /\ response[1].gvr # ""
    THEN Some(response[1].gvr)
  ELSE null

\* extractVideoUri trying the result shapes before the canonical one
extractVideoUri_ResultFirst(response) ==
  IF IsNull(response) THEN null
  ELSE IF response[1].resVideo # "" THEN Some(response[1].resVideo)
  ELSE IF response[1].resUri # "" THEN Some(response[1].resUri)
  ELSE IF response[1].samples = "array" /\ response[1].gvr # ""
    THEN Some(response[1].gvr)
  ELSE null

\* extractVideoUri of the stateless server
extractVideoUri(response) ==
  IF IsNull(response) THEN null
  ELSE IF response[1].samples = "array" /\ response[1].gvr # ""
    THEN Some(response[1].gvr)
  ELSE IF response[1].resVideo # "" THEN Some(response[1].resVideo)
  ELSE IF response[1].resUri # "" THEN Some(response[1].resUri)
  ELSE null

(* ------------------------------- ids ----------------------------------- *)
Digits36 ==
  <<"0", "1", "2", "3", "4", "5", "6", "7", "8", "9", "a", "b", "c", "d", "e",
    "f", "g", "h", "i", "j", "k", "l", "m", "n", "o", "p", "q", "r", "s", "t",
    "u", "v", "w", "x", "y", "z">>

\* Number.prototype.toString(36) of a natural number
RECURSIVE ToString36(_)
ToString36(n) ==
  IF n < 36 THEN <<Digits36[n + 1]>>
  ELSE ToString36(n \div 36) \o <<Digits36[(n % 36) + 1]>>

\* Math.random().toString(36).slice(2): the digits after "0."
RandomStrings == {<<"k">>, <<"q">>}

\* Date.now().toString(36) + Math.random().toString(36).slice(2)
makeOperationId(now, rnd) == ToString36(now) \o rnd

\* remote job names a submit may answer; <<>> is an answer without a name
RemoteNames == {<<"j", "/", "1">>, <<"j", "%", "2">>}

(* ----------------------- encodeURIComponent ---------------------------- *)
HexDigits == <<"0", "1", "2", "3", "4", "5", "6", "7", "8", "9",
               "A", "B", "C", "D", "E", "F">>
\* the ASCII characters of the model and their codes
CharCodes == {<<"/", 47>>, <<"%", 37>>, <<"j", 106>>, <<"1", 49>>, <<"2", 50>>,
              <<"F", 70>>, <<"5", 53>>, <<"z", 122>>}
CodeOf(c) == (CHOOSE p \in CharCodes : p[1] = c)[2]
Reserved == {"/", "%"}

RECURSIVE encodeURIComponent(_)
encodeURIComponent(s) ==
  IF s = <<>> THEN <<>>
  ELSE (IF Head(s) \in Reserved
          THEN <<"%", HexDigits[(CodeOf(Head(s)) \div 16) + 1],
                 HexDigits[(CodeOf(Head(s)) % 16) + 1]>>
          ELSE <<Head(s)>>)
       \o encodeURIComponent(Tail(s))

HexValue(c) ==
  IF \E i \in 1..16 : HexDigits[i] = c
    THEN (CHOOSE i \in 1..16 : HexDigits[i] = c) - 1
    ELSE -1

\* decodeURIComponent leaving every escape as it is
decodeURIComponent_None(s) == [ok |-> TRUE, val |-> s]

\* decodeURIComponent: [ok |-> FALSE] is the URIError it throws on a
\* malformed escape; an escape of a character outside the model is "?"
RECURSIVE decodeURIComponent(_)
decodeURIComponent(s) ==
  IF s = <<>> THEN [ok |-> TRUE, val |-> <<>>]
  ELSE IF Head(s) # "%"
    THEN LET rest == decodeURIComponent(Tail(s))
         IN  [ok |-> rest.ok, val |-> IF rest.ok THEN <<Head(s)>> \o rest.val ELSE <<>>]
  ELSE IF Len(s) < 3 \/ HexValue(s[2]) < 0 \/ HexValue(s[3]) < 0
            \/ HexValue(s[2]) >= 8
    THEN [ok |-> FALSE, val |-> <<>>]
  ELSE LET code == 16 * HexValue(s[2]) + HexValue(s[3])
           ch == IF \E p \in CharCodes : p[2] = code
                   THEN (CHOOSE p \in CharCodes : p[2] = code)[1]
                   ELSE "?"
           rest == decodeURIComponent(SubSeq(s, 4, Len(s)))
       IN  [ok |-> rest.ok, val |-> IF rest.ok THEN <<ch>> \o rest.val ELSE <<>>]

(* ------------------------------- state --------------------------------- *)
VARIABLES
  variant,     \* which of the three servers runs
  API_KEY,     \* TRUE iff a credential is configured (API_KEY / ai is truthy)
  clock,       \* the value Date.now() returned last
  operations,  \* the Map: operationId -> reference of the stored object
  heap,        \* the objects ever stored, by reference
  monitors,    \* one entry per monitorOperation call: its closure and timer
  ticks,       \* interval callbacks awaiting the answer of their poll
  reads,       \* status handlers awaiting the answer of their poll
  creates,     \* generate handlers awaiting the answer of their submit
  videos,      \* video handlers awaiting the answer of their poll or download
  response,    \* the HTTP response sent by the last step, if it sent one
  last,        \* the last step: which action, on which id, with what answer
  issued,      \* the operationIds returned to clients so far
  events       \* requests received and interval firings so far

vars == <<variant, API_KEY, clock, operations, heap, monitors, ticks, reads,
          creates, videos, response, last, issued, events>>

Variants == {"rest", "sdk", "stateless"}

\* the credential check with the credential taken as always present
Configured_Always == TRUE

\* API_KEY (rest, stateless) or ai (sdk) is truthy
Configured == API_KEY
HasStore == variant \in {"rest", "sdk"}

VisualPrompts == {"", "a cat"}
AudioPrompts == {""}
Durations == {"10 seconds"}
AspectRatios == {"16:9"}
\* ids a client may ask about that no generate request returned
UnknownIds == {<<"z">>}

SubmitAnswer(k, n) == [kind |-> k, name |-> n]
SubmitAnswers ==
  {SubmitAnswer("http_error", <<>>), SubmitAnswer("throw", <<>>),
   SubmitAnswer("ok", <<>>)}
  \cup {SubmitAnswer("ok", n) : n \in RemoteNames}

\* the bodies a done=true poll answer may carry: one without an artifact
\* reference and the shapes the running server knows
DoneResponses ==
  IF variant = "rest" THEN {Some(EmptyResponse), Some(CanonicalResponse)}
  ELSE IF variant = "sdk" THEN {Some(EmptyResponse), Some(SdkResponse)}
  ELSE {null, Some(EmptyResponse), Some(CanonicalResponse), Some(AlternateResponse),
        Some(NonArrayResponse), Some(AllShapesResponse),
        Some(BothResultsResponse)}

PollAnswers ==
  {PollAnswer("http_error", FALSE, null), PollAnswer("throw", FALSE, null),
   PollAnswer("ok", FALSE, null)}
  \cup {PollAnswer("ok", TRUE, r) : r \in DoneResponses}

\* the SDK reports every failure by throwing
AnswersOf(answers) ==
  IF variant = "sdk" THEN {a \in answers : a.kind # "http_error"} ELSE answers

NoResponse ==
  [handler |-> "none", code |-> 0, error |-> "", status |-> "",
   operationId |-> <<>>, videoUrl |-> null, metadata |-> null]
Reply(h, c, e, st, id, url, md) ==
  [handler |-> h, code |-> c, error |-> e, status |-> st,
   operationId |-> id, videoUrl |-> url, metadata |-> md]

\* operations.get(id): the reference, 0 for undefined
Get(id) == IF id \in DOMAIN operations THEN operations[id] ELSE 0
\* the record the store holds under id
Stored(id) == heap[operations[id]]
StatusOf(id) == IF id \in DOMAIN operations THEN Stored(id).status ELSE "absent"

Step(a, id, ans) ==
  [act |-> a, id |-> id, kind |-> ans.kind, done |-> ans.done,
   body |-> ans.response]
NoAnswer == PollAnswer("none", FALSE, null)

Init ==
  /\ variant \in Variants
  /\ API_KEY \in BOOLEAN
  /\ clock = 0
  /\ operations = <<>>
  /\ heap = <<>>
  /\ monitors = <<>>
  /\ ticks = {}
  /\ reads = {}
  /\ creates = {}
  /\ videos = {}
  /\ response = NoResponse
  /\ last = Step("init", <<>>, NoAnswer)
  /\ issued = {}
  /\ events = 0

\* the values a call of Date.now() may return: time has passed since the
\* last call, or not
Now == {t \in {clock, clock + 1} : t <= MaxClock}
\* the values of a second call after one that returned now
Later(now) == {t \in {now, now + 1} : t <= MaxClock}

(* ------------------------- POST /api/generate -------------------------- *)
\* the object operations.set stores for a new operation
NewOperation(id, c, name, at) ==
  [id |-> id, status |-> "processing", visualPrompt |-> c.visualPrompt,
   audioPrompt |-> c.audioPrompt, duration |-> c.duration,
   aspectRatio |-> c.aspectRatio, createdAt |-> at,
   remoteName |-> IF variant = "rest" THEN name ELSE <<>>,
   remoteOperation |->
     IF variant = "sdk"
       THEN Some([name |-> name, done |-> FALSE, response |-> null])
       ELSE null,
   videoUrl |-> null, metadata |-> null, completedAt |-> null]

\* the references held by the Map and by the handlers and callbacks in flight
Live(ops, tk, rd) ==
  {ops[k] : k \in DOMAIN ops} \cup {t.stored : t \in tk} \cup {r.stored : r \in rd}

\* an object nothing refers to any more is gone (garbage collection)
Collect(h, ops, tk, rd) == [ref \in DOMAIN h \cap Live(ops, tk, rd) |-> h[ref]]

\* the reference of a new object: the least one not in use
NewRef(h) ==
  CHOOSE n \in 1..(Cardinality(DOMAIN h) + 1) :
    n \notin DOMAIN h /\ \A k \in 1..(n - 1) : k \in DOMAIN h

\* operations.set(id, obj) on a store that keeps its latest entry only
MapSet_KeepsLatestOnly(h, id, obj, tk, rd) ==
  LET ref == NewRef(h)
      ops == [k \in {id} |-> ref]
      h1 == [x \in DOMAIN h \cup {ref} |-> IF x = ref THEN obj ELSE h[x]]
  IN  /\ operations' = ops
      /\ heap' = Collect(h1, ops, tk, rd)

\* operations.set(id, obj) with a newly built object, on heap h; tk and rd are
\* the callbacks and handlers still in flight afterwards
MapSet(h, id, obj, tk, rd) ==
  LET ref == NewRef(h)
      ops == [k \in DOMAIN operations \cup {id} |->
                IF k = id THEN ref ELSE operations[k]]
      h1 == [x \in DOMAIN h \cup {ref} |-> IF x = ref THEN obj ELSE h[x]]
  IN  /\ operations' = ops
      /\ heap' = Collect(h1, ops, tk, rd)

\* the handler up to its await of the submit call
GenerateRequest(vp, ap, du, ar) ==
  /\ events < MaxEvents
  /\ events' = events + 1
  /\ IF ~Configured
       THEN /\ response' = Reply("generate", 500, "Google AI not configured", "",
                                 <<>>, null, null)
            /\ last' = Step("GenerateRequest", <<>>, NoAnswer)
            /\ UNCHANGED creates
     ELSE IF vp = ""
       THEN /\ response' = Reply("generate", 400,
                                 "Missing required field: visualPrompt", "",
                                 <<>>, null, null)
            /\ last' = Step("GenerateRequest", <<>>, NoAnswer)
            /\ UNCHANGED creates
     ELSE /\ creates' = creates \cup
                          {[n |-> events + 1, visualPrompt |-> vp,
                            audioPrompt |-> ap, duration |-> du, aspectRatio |-> ar]}
          /\ response' = NoResponse
          /\ last' = Step("GenerateRequest", <<>>, NoAnswer)
  /\ UNCHANGED <<variant, API_KEY, clock, operations, heap, monitors, ticks,
                 reads, videos, issued>>

\* monitorOperation(operationId): a closure with attempts = 0 and a running
\* interval timer
monitorOperation(id) ==
  monitors' = Append(monitors, [id |-> id, attempts |-> 0, active |-> TRUE,
                                polls |-> 0])

\* the submit failed, or (rest, stateless) its answer has no name
SubmitRefused(ans) ==
  \/ ans.kind # "ok"
  \/ variant # "sdk" /\ ans.name = <<>>

\* the handler from the answer of the submit call on; now is the Date.now() of
\* makeOperationId, at the later one of createdAt
GenerateAnswer(c, ans, rnd, now, at) ==
  /\ c \in creates
  /\ creates' = creates \ {c}
  /\ IF SubmitRefused(ans)
       THEN /\ response' = Reply("generate", 500, "Generation failed", "", <<>>,
                                 null, null)
            /\ last' = Step("GenerateAnswer", <<>>, PollAnswer(ans.kind, FALSE, null))
            /\ UNCHANGED <<operations, heap, monitors, issued, clock>>
     ELSE IF HasStore
       THEN LET id == makeOperationId(now, rnd)
            IN  /\ MapSet(heap, id, NewOperation(id, c, ans.name, at), ticks, reads)
                /\ clock' = at
                /\ monitorOperation(id)
                /\ issued' = issued \cup {id}
                /\ response' = Reply("generate", 200, "", "", id, null, null)
                /\ last' = Step("GenerateAnswer", id, PollAnswer("ok", FALSE, null))
     ELSE LET id == encodeURIComponent(ans.name)
          IN  /\ issued' = issued \cup {id}
              /\ response' = Reply("generate", 200, "", "", id, null, null)
              /\ last' = Step("GenerateAnswer", id, PollAnswer("ok", FALSE, null))
              /\ UNCHANGED <<operations, heap, monitors, clock>>
  /\ UNCHANGED <<variant, API_KEY, ticks, reads, videos, events>>

(* ----------------------- the poll transition --------------------------- *)
\* the artifact reference the store variants read from a done answer
VideoUrlOf(resp) ==
  IF variant = "rest" THEN RestVideoUri(resp) ELSE SdkVideoUrl(resp)

\* the fields a done=true answer writes: status, videoUrl, metadata, completedAt
Completed(obj, resp, now) ==
  [obj EXCEPT !.status = "completed", !.videoUrl = VideoUrlOf(resp),
              !.metadata = resp, !.completedAt = Some(now)]

\* stored.remoteOperation = op (sdk); the rest variant keeps the object as is
Refreshed(obj, ans) ==
  IF variant = "sdk"
    THEN [obj EXCEPT !.remoteOperation =
            Some([name |-> obj.remoteOperation[1].name, done |-> ans.done,
                  response |-> ans.response])]
    ELSE obj

\* StatusWrite with the status assigned from json.done on every answer
StatusWrite_Regress(obj, ans, now) ==
  IF ans.done THEN Completed(Refreshed(obj, ans), ans.response, now)
  ELSE [Refreshed(obj, ans) EXCEPT !.status = "processing"]

\* what the status handler leaves in the object it read, given an ok answer
StatusWrite(obj, ans, now) ==
  IF ans.done THEN Completed(Refreshed(obj, ans), ans.response, now)
  ELSE Refreshed(obj, ans)

\* the remote job an object refers to
RemoteOf(obj) ==
  IF variant = "rest" THEN obj.remoteName ELSE obj.remoteOperation[1].name

(* ------------------------ GET /api/status/:id -------------------------- *)
\* stored.status === 'completed' && stored.videoUrl
Cached(obj) == obj.status = "completed" /\ Truthy(obj.videoUrl)

StatusIds == DOMAIN operations \cup issued \cup UnknownIds

\* the catch block of the handler answering that the operation is processing
StatusCheckFailed_AsProcessing ==
  Reply("status", 200, "", "processing", <<>>, null, null)

\* the catch block of the handler, and its answer to a non-2xx poll
StatusCheckFailed ==
  Reply("status", 500, "Status check failed", "", <<>>, null, null)

\* the handler up to its await of the poll
StatusRequest(id) ==
  /\ events < MaxEvents
  /\ events' = events + 1
  /\ IF HasStore
       THEN LET ref == Get(id)
            IN  IF ref = 0
                  THEN /\ response' = Reply("status", 404, "Operation not found", "",
                                            id, null, null)
                       /\ last' = Step("StatusRequest", id, NoAnswer)
                       /\ UNCHANGED reads
                ELSE IF Cached(heap[ref])
                  THEN /\ response' = Reply("status", 200, "", "completed", id,
                                            heap[ref].videoUrl, heap[ref].metadata)
                       /\ last' = Step("StatusRequest", id, NoAnswer)
                       /\ UNCHANGED reads
                ELSE IF variant = "sdk" /\ IsNull(heap[ref].remoteOperation)
                  THEN /\ response' = Reply("status", 500,
                                            "Missing remote operation data", "", id,
                                            null, null)
                       /\ last' = Step("StatusRequest", id, NoAnswer)
                       /\ UNCHANGED reads
                ELSE /\ reads' = reads \cup
                                   {[n |-> events + 1, id |-> id, stored |-> ref,
                                     name |-> RemoteOf(heap[ref])]}
                     /\ response' = NoResponse
                     /\ last' = Step("StatusRequest", id, NoAnswer)
     ELSE IF ~Configured
       THEN /\ response' = Reply("status", 500, "Google AI not configured", "",
                                 <<>>, null, null)
            /\ last' = Step("StatusRequest", id, NoAnswer)
            /\ UNCHANGED reads
     ELSE IF ~decodeURIComponent(id).ok
       THEN /\ response' = StatusCheckFailed
            /\ last' = Step("StatusRequest", id, NoAnswer)
            /\ UNCHANGED reads
     ELSE /\ reads' = reads \cup
                        {[n |-> events + 1, id |-> id, stored |-> 0,
                          name |-> decodeURIComponent(id).val]}
          /\ response' = NoResponse
          /\ last' = Step("StatusRequest", id, NoAnswer)
  /\ UNCHANGED <<variant, API_KEY, clock, operations, heap, monitors, ticks,
                 creates, videos, issued>>

\* the handler from the answer of the poll on
StatusAnswer(r, ans, now) ==
  /\ r \in reads
  /\ reads' = reads \ {r}
  /\ last' = Step("StatusAnswer", r.id, ans)
  /\ IF ans.kind # "ok"
       THEN /\ response' = StatusCheckFailed
            /\ heap' = Collect(heap, operations, ticks, reads \ {r})
     ELSE IF HasStore
       THEN /\ heap' = Collect([heap EXCEPT ![r.stored] = StatusWrite(@, ans, now)],
                               operations, ticks, reads \ {r})
            /\ response' =
                 IF ans.done
                   THEN Reply("status", 200, "", "completed", r.id,
                              VideoUrlOf(ans.response), ans.response)
                   ELSE Reply("status", 200, "", "processing", r.id, null, null)
     ELSE /\ UNCHANGED heap
          /\ response' =
               IF ~ans.done
                 THEN Reply("status", 200, "", "processing", r.id, null, null)
               ELSE IF IsNull(extractVideoUri(ans.response))
                 THEN Reply("status", 500, "Video URI not found in Veo response",
                            "failed", <<>>, null, ans.response)
               ELSE Reply("status", 200, "", "completed", r.id,
                          Some("PUBLIC_BACKEND_URL/api/video/:id"), ans.response)
  /\ clock' = IF HasStore /\ ans.kind = "ok" /\ ans.done THEN now ELSE clock
  /\ UNCHANGED <<variant, API_KEY, operations, monitors, ticks, creates,
                 videos, issued, events>>

(* ------------------------- GET /api/video/:id -------------------------- *)
\* the status codes of a non-2xx answer of the remote
UpstreamErrors == {404, 503}

DownloadKinds == {"ok", "http_error", "throw"}

\* res.status(202).json({error: 'Video not ready yet', status: 'processing'})
\* answered as the reply of a done job without an artifact reference
VideoNotReady_AsNoArtifact ==
  Reply("video", 500, "Video URI not found in Veo response", "", <<>>, null, null)

\* res.status(202).json({error: 'Video not ready yet', status: 'processing'})
VideoNotReady ==
  Reply("video", 202, "Video not ready yet", "processing", <<>>, null, null)

\* res.status(upstream.status).send(text)
Relayed(code) == Reply("video", code, "upstream text", "", <<>>, null, null)

\* the catch block of the handler
VideoProxyFailed == Reply("video", 500, "Video proxy failed", "", <<>>, null, null)

\* downloadUrl with the uri of the canonical example in it
downloadUrl_Fixed(videoUri) == Some(<<"BASE_URL", "files/abc">>)

\* const downloadUrl = `${BASE_URL}/${videoUri}`
downloadUrl(videoUri) == Some(<<"BASE_URL", videoUri[1]>>)

\* the handler up to its await of the poll (stateless server only)
VideoRequest(id) ==
  /\ variant = "stateless"
  /\ events < MaxEvents
  /\ events' = events + 1
  /\ last' = Step("VideoRequest", id, NoAnswer)
  /\ IF ~Configured
       THEN /\ response' = Reply("video", 500, "Google AI not configured", "",
                                 <<>>, null, null)
            /\ UNCHANGED videos
     ELSE IF ~decodeURIComponent(id).ok
       THEN /\ response' = VideoProxyFailed
            /\ UNCHANGED videos
     ELSE /\ videos' = videos \cup
                         {[n |-> events + 1, id |-> id, stage |-> "poll",
                           name |-> decodeURIComponent(id).val, uri |-> null,
                           url |-> null]}
          /\ response' = NoResponse
  /\ UNCHANGED <<variant, API_KEY, clock, operations, heap, monitors, ticks,
                 reads, creates, issued>>

\* the handler from the answer of the poll to its await of the download
VideoAnswer(v, ans, code) ==
  /\ v \in videos
  /\ v.stage = "poll"
  /\ last' = Step("VideoAnswer", v.id, ans)
  /\ IF ans.kind = "http_error"
       THEN /\ response' = Relayed(code)
            /\ videos' = videos \ {v}
     ELSE IF ans.kind = "throw"
       THEN /\ response' = VideoProxyFailed
            /\ videos' = videos \ {v}
     ELSE IF ~ans.done
       THEN /\ response' = VideoNotReady
            /\ videos' = videos \ {v}
     ELSE IF IsNull(extractVideoUri(ans.response))
       THEN /\ response' = Reply("video", 500,
                                 "Video URI not found in Veo response", "", <<>>,
                                 null, null)
            /\ videos' = videos \ {v}
     ELSE /\ response' = NoResponse
          /\ videos' = (videos \ {v}) \cup
                         {[v EXCEPT !.stage = "download",
                                    !.uri = extractVideoUri(ans.response),
                                    !.url = downloadUrl(extractVideoUri(ans.response))]}
  /\ UNCHANGED <<variant, API_KEY, clock, operations, heap, monitors, ticks,
                 reads, creates, issued, events>>

\* the handler from the answer of the download on: the bytes fetched from
\* v.url are piped to the client
DownloadAnswer(v, kind, code) ==
  /\ v \in videos
  /\ v.stage = "download"
  /\ videos' = videos \ {v}
  /\ last' = Step("DownloadAnswer", v.id, PollAnswer(kind, FALSE, null))
  /\ response' =
       IF kind = "http_error" THEN Relayed(code)
       ELSE IF kind = "throw" THEN VideoProxyFailed
       ELSE Reply("video", 200, "", "", <<>>, v.uri, null)
  /\ UNCHANGED <<variant, API_KEY, clock, operations, heap, monitors, ticks,
                 reads, creates, issued, events>>

(* ------------------------- monitorOperation ---------------------------- *)
\* the checks at the head of the interval callback that end the timer
MonitorStops(ref) ==
  IF variant = "rest"
    THEN ref = 0 \/ heap[ref].status = "completed"
    ELSE ref = 0 \/ IsNull(heap[ref].remoteOperation)

\* CapReached one attempt early
CapReached_OffByOne(attempts) == attempts + 1 >= maxAttempts

\* the cap check at the foot of the callback
CapReached(attempts) == attempts >= maxAttempts

\* answers after which the callback returns before the cap check
ReturnsEarly(ans) == variant = "rest" /\ ans.kind = "http_error"

InFlight(m) == {t \in ticks : t.mon = m}

\* the interval fires: the callback up to its await of the poll
Tick(m) ==
  /\ m \in 1..Len(monitors)
  /\ monitors[m].active
  /\ events < MaxEvents
  /\ events' = events + 1
  /\ LET id == monitors[m].id
         ref == Get(id)
         n == monitors[m].attempts + 1
     IN  IF MonitorStops(ref)
           THEN /\ monitors' = [monitors EXCEPT ![m].attempts = n,
                                                ![m].active = FALSE]
                /\ last' = Step("Tick", id, NoAnswer)
                /\ UNCHANGED ticks
         ELSE /\ monitors' = [monitors EXCEPT ![m].attempts = n,
                                              ![m].polls = @ + 1]
              /\ ticks' = ticks \cup {[mon |-> m, n |-> n, stored |-> ref]}
              /\ last' = Step("Tick", id, NoAnswer)
  /\ response' = NoResponse
  /\ UNCHANGED <<variant, API_KEY, clock, operations, heap, reads, creates,
                 videos, issued>>

\* the callback from the answer of its poll on
TickAnswer(t, ans, now) ==
  /\ t \in ticks
  /\ ticks' = ticks \ {t}
  /\ response' = NoResponse
  /\ LET m == t.mon
         id == monitors[m].id
         obj == Refreshed(heap[t.stored], ans)
         stop == (ans.kind = "ok" /\ ans.done) \/ CapReached(monitors[m].attempts)
     IN  /\ last' = Step("TickAnswer", id, ans)
         /\ IF ReturnsEarly(ans)
              THEN /\ heap' = Collect(heap, operations, ticks \ {t}, reads)
                   /\ UNCHANGED <<operations, monitors>>
            ELSE /\ monitors' = [monitors EXCEPT ![m].active = @ /\ ~stop]
                 /\ IF ans.kind # "ok"
                      THEN /\ heap' = Collect(heap, operations, ticks \ {t}, reads)
                           /\ UNCHANGED operations
                    ELSE IF ans.done
                      THEN MapSet([heap EXCEPT ![t.stored] = obj], id,
                                  Completed(obj, ans.response, now),
                                  ticks \ {t}, reads)
                    ELSE /\ heap' = Collect([heap EXCEPT ![t.stored] = obj],
                                            operations, ticks \ {t}, reads)
                         /\ UNCHANGED operations
  /\ clock' = IF ~ReturnsEarly(ans) /\ ans.kind = "ok" /\ ans.done THEN now ELSE clock
  /\ UNCHANGED <<variant, API_KEY, reads, creates, videos, issued, events>>

(* ------------------------------ the system ----------------------------- *)
Next ==
  \/ \E vp \in VisualPrompts, ap \in AudioPrompts, du \in Durations,
        ar \in AspectRatios : GenerateRequest(vp, ap, du, ar)
  \/ \E c \in creates, ans \in AnswersOf(SubmitAnswers), rnd \in RandomStrings,
        now \in Now :
        \E at \in Later(now) : GenerateAnswer(c, ans, rnd, now, at)
  \/ \E id \in StatusIds : StatusRequest(id)
  \/ \E r \in reads, ans \in AnswersOf(PollAnswers), now \in Now :
        StatusAnswer(r, ans, now)
  \/ \E id \in StatusIds : VideoRequest(id)
  \/ \E v \in videos, ans \in AnswersOf(PollAnswers), code \in UpstreamErrors :
        VideoAnswer(v, ans, code)
  \/ \E v \in videos, kind \in DownloadKinds, code \in UpstreamErrors :
        DownloadAnswer(v, kind, code)
  \/ \E m \in 1..Len(monitors) : Tick(m)
  \/ \E t \in ticks, ans \in AnswersOf(PollAnswers), now \in Now :
        TickAnswer(t, ans, now)

Spec == Init /\ [][Next]_vars

(* ============================== claims ================================= *)
PollActs == {"StatusAnswer", "TickAnswer"}

\* C1: once the stored status of an operation is completed, no poll result
\* (of a monitor tick or of a status read, stale ones that report done=false
\* included) changes it back to processing.
C1_NoRegression ==
  [][\A id \in DOMAIN operations :
       (StatusOf(id) = "completed" /\ last'.act \in PollActs)
         => (id \in DOMAIN operations' /\ StatusOf(id)' = "completed")]_vars

\* C1 witness: a poll answer with done=false has been applied to an operation
\* the store holds as completed.
C1_Witness ==
  /\ last.act \in PollActs
  /\ last.kind = "ok" /\ ~last.done
  /\ StatusOf(last.id) = "completed"

\* C2: a monitor tick and a status read of the same operation are in flight
\* and both get done=true with the same response.  Once the status read has
\* written the terminal record (the monitor's timer is still running, so it
\* was not the monitor), the monitor's answer is dropped: completedAt, videoUrl
\* and metadata of the stored record do not change.  Stated for the rest
\* variant, where a callback that starts after the terminal write polls
\* nothing, so the answer applied is that of a poll in flight at the write.
C2_OneTerminalRecord ==
  [][\A id \in DOMAIN operations :
       (/\ variant = "rest"
        /\ StatusOf(id) = "completed"
        /\ \A m \in 1..Len(monitors) : monitors[m].id = id => monitors[m].active
        /\ last'.act = "TickAnswer" /\ last'.id = id
        /\ last'.kind = "ok" /\ last'.done
        /\ last'.body = Stored(id).metadata)
         => /\ id \in DOMAIN operations'
            /\ Stored(id)'.completedAt = Stored(id).completedAt
            /\ Stored(id)'.videoUrl = Stored(id).videoUrl
            /\ Stored(id)'.metadata = Stored(id).metadata]_vars

\* C3: a monitor that ran into the attempt cap without a done=true answer
\* has left the operation in the terminal status timeout (the claim's first
\* half; C3_NoPollAfterCap is its second half).
C3_TimedOutAtCap ==
  \A m \in 1..Len(monitors) :
    (/\ CapReached(monitors[m].attempts)
     /\ ~monitors[m].active
     /\ InFlight(m) = {}
     /\ StatusOf(monitors[m].id) # "completed")
      => StatusOf(monitors[m].id) = "timeout"

\* C3, second half: once the callbacks that ran into the cap are through, the
\* interval is cleared, so that no poll is issued after the cap has been hit.
C3_NoPollAfterCap ==
  \A m \in 1..Len(monitors) :
    (monitors[m].attempts >= maxAttempts /\ InFlight(m) = {})
      => ~monitors[m].active

\* C4: for every stored operation the videoUrl is non-null iff the status is
\* completed.
C4_ArtifactIffCompleted ==
  \A id \in DOMAIN operations :
    (Stored(id).videoUrl # null) <=> (Stored(id).status = "completed")

\* C5: a done=true answer without an extractable artifact reference, applied
\* to a processing operation, leaves it failed (not completed) with the raw
\* response retained.
C5_NoArtifactFails ==
  [][\A id \in DOMAIN operations :
       (/\ StatusOf(id) = "processing"
        /\ last'.act \in PollActs /\ last'.id = id
        /\ last'.kind = "ok" /\ last'.done
        /\ IsNull(VideoUrlOf(last'.body)))
         => (/\ id \in DOMAIN operations'
             /\ StatusOf(id)' = "failed"
             /\ Stored(id)'.metadata = last'.body)]_vars

\* C6: a monitor tick whose poll fails (non-2xx or thrown) changes no stored
\* record, so a processing operation stays processing; it does not stop the
\* timer while the attempt counter is below the cap; and a tick of a processing
\* operation always issues a poll, so the poll is tried again on the next tick.
C6_PollErrorIsTransient ==
  [][/\ (last'.act = "TickAnswer" /\ last'.kind \in {"http_error", "throw"})
          => /\ operations' = operations
             /\ \A id \in DOMAIN operations : Stored(id)' = Stored(id)
             /\ \A m \in 1..Len(monitors) :
                  (monitors[m].active /\ monitors[m].attempts < maxAttempts)
                    => monitors'[m].active
     /\ (last'.act = "Tick" /\ StatusOf(last'.id) = "processing")
          => \E t \in ticks' : t \notin ticks]_vars

\* C6 witness: the poll of a tick has failed, the operation is processing and
\* its timer still runs below the cap.
C6_Witness ==
  /\ last.act = "TickAnswer" /\ last.kind \in {"http_error", "throw"}
  /\ StatusOf(last.id) = "processing"
  /\ \E m \in 1..Len(monitors) :
       /\ monitors[m].id = last.id
       /\ monitors[m].active
       /\ monitors[m].attempts < maxAttempts

Terminal == {"completed", "failed", "timeout"}

\* C7: a tick that finds the stored status terminal, or the id gone from the
\* store, issues no poll and clears the interval.
C7_TerminalStopsMonitor ==
  [][\A m \in 1..Len(monitors) :
       (Tick(m) /\ StatusOf(monitors[m].id) \in Terminal \cup {"absent"})
         => (ticks' = ticks /\ ~monitors'[m].active)]_vars

\* C8: a status read of an operation stored as completed answers completed
\* from the store and issues no poll.
C8_CompletedIsCacheHit ==
  [][\A id \in DOMAIN operations :
       (StatusRequest(id) /\ StatusOf(id) = "completed")
         => (/\ reads' = reads
             /\ response'.code = 200
             /\ response'.status = "completed")]_vars

\* C9: a status read for an id no generate request returned answers not-found
\* (404), issues no poll and changes no stored record, in every variant (here
\* with the credential configured).
C9_UnknownIdNotFound ==
  [][\A id \in StatusIds :
       (StatusRequest(id) /\ id \notin issued /\ API_KEY)
         => (/\ response'.code = 404
             /\ reads' = reads
             /\ operations' = operations /\ heap' = heap)]_vars

\* the record the store holds under id after the step
StoredNext(id) == heap'[operations'[id]]

\* C10: a generate request whose submit succeeded returns an operationId that
\* was no key of the store before, and the store then holds under it a record
\* with status processing, videoUrl null and the remote job name of the submit.
C10_FreshProcessingEntry ==
  [][\A c \in creates, ans \in SubmitAnswers, rnd \in RandomStrings,
        now \in Now : \A at \in Later(now) :
       (HasStore /\ GenerateAnswer(c, ans, rnd, now, at) /\ ~SubmitRefused(ans))
         => LET id == response'.operationId
            IN  /\ response'.code = 200
                /\ id \notin DOMAIN operations
                /\ id \in DOMAIN operations'
                /\ StoredNext(id).status = "processing"
                /\ StoredNext(id).videoUrl = null
                /\ RemoteOf(StoredNext(id)) = ans.name]_vars

\* C10 without the freshness: what the request leaves in the store.
C10_ProcessingEntry ==
  [][\A c \in creates, ans \in SubmitAnswers, rnd \in RandomStrings,
        now \in Now : \A at \in Later(now) :
       (HasStore /\ GenerateAnswer(c, ans, rnd, now, at) /\ ~SubmitRefused(ans))
         => LET id == response'.operationId
            IN  /\ response'.code = 200
                /\ id \in DOMAIN operations'
                /\ StoredNext(id).status = "processing"
                /\ StoredNext(id).videoUrl = null
                /\ RemoteOf(StoredNext(id)) = ans.name]_vars

\* C11: for every operation id at most one background monitor (one interval
\* timer created by monitorOperation and not yet cleared) exists at any time.
C11_OneMonitorPerId ==
  \A m1, m2 \in 1..Len(monitors) :
    (/\ monitors[m1].id = monitors[m2].id
     /\ monitors[m1].active /\ monitors[m2].active)
      => m1 = m2

\* C11 as far as it holds: a timer is created only by a generate request
\* whose submit succeeded, one per request and for the id it returns; a status
\* read creates none.
C11_OneMonitorPerCreate ==
  [][\/ Len(monitors') = Len(monitors)
     \/ /\ last'.act = "GenerateAnswer"
        /\ response'.code = 200
        /\ Len(monitors') = Len(monitors) + 1
        /\ SubSeq(monitors', 1, Len(monitors)) = monitors
        /\ monitors'[Len(monitors')].id = response'.operationId]_vars

\* C12: a status read that polled returns the status the store holds when the
\* response is sent; it does not report processing for an operation the store
\* holds as completed.  Stated for a record completed with its artifact: such
\* a record is answered from the store, so a read that polled for it saw it
\* before it was completed.
C12_ReadReturnsStoredStatus ==
  (/\ HasStore
   /\ last.act = "StatusAnswer"
   /\ response.code = 200
   /\ last.id \in DOMAIN operations
   /\ Cached(heap[operations[last.id]]))
    => response.status = "completed"

\* C12 as far as it holds: a status read of a processing operation issues
\* exactly one poll, and a read that is answered done=true reports the
\* completed status it has just written.
C12_OnePollPerRead ==
  [][/\ \A id \in DOMAIN operations :
          (StatusRequest(id) /\ StatusOf(id) = "processing")
            => \E r \in reads' : r.id = id /\ r \notin reads /\ reads' = reads \cup {r}
     /\ (HasStore /\ last'.act = "StatusAnswer" /\ last'.kind = "ok" /\ last'.done)
          => response'.status = "completed"]_vars

\* C13: without a credential a create request is refused with the
\* not-configured outcome; no submit call is made, no store entry is created
\* and no monitor is started, so that none of them ever exists.
C13_NotConfiguredRefused ==
  [][~API_KEY =>
       /\ creates = {} /\ operations = <<>> /\ monitors = <<>>
       /\ last'.act = "GenerateRequest"
            => /\ response'.handler = "generate"
               /\ response'.code = 500
               /\ response'.error = "Google AI not configured"
               /\ creates' = creates
               /\ operations' = operations /\ heap' = heap
               /\ monitors' = monitors]_vars

\* C13 witness: a create request has been refused for want of a credential.
C13_Witness ==
  /\ ~API_KEY
  /\ last.act = "GenerateRequest"
  /\ response.error = "Google AI not configured"

\* the create request ended with an error outcome and left the store and the
\* monitors as they were
RefusedCreate ==
  /\ response'.handler = "generate"
  /\ response'.code >= 400
  /\ operations' = operations /\ heap' = heap
  /\ monitors' = monitors

\* C14: a create request without the prompt, or whose submit answers non-2xx,
\* throws or succeeds without a job name, ends with an error outcome and leaves
\* the store and the running monitors unchanged.
C14_OnlySubmittedCreates ==
  [][/\ \A ap \in AudioPrompts, du \in Durations, ar \in AspectRatios :
          GenerateRequest("", ap, du, ar) => (RefusedCreate /\ creates' = creates)
     /\ \A c \in creates, ans \in SubmitAnswers, rnd \in RandomStrings,
           now \in Now : \A at \in Later(now) :
          (GenerateAnswer(c, ans, rnd, now, at)
             /\ (ans.kind # "ok" \/ ans.name = <<>>))
            => RefusedCreate]_vars

\* C14 as far as it holds: the same, the sdk variant's success answer without
\* a job name left aside.
C14_ExceptSdkNameless ==
  [][/\ \A ap \in AudioPrompts, du \in Durations, ar \in AspectRatios :
          GenerateRequest("", ap, du, ar) => (RefusedCreate /\ creates' = creates)
     /\ \A c \in creates, ans \in SubmitAnswers, rnd \in RandomStrings,
           now \in Now : \A at \in Later(now) :
          (GenerateAnswer(c, ans, rnd, now, at)
             /\ (ans.kind # "ok" \/ (variant # "sdk" /\ ans.name = <<>>)))
            => RefusedCreate]_vars

\* C15: extractVideoUri, applied by the video handler to the response of a
\* done=true answer, yields the uri of the canonical shape
\* {generateVideoResponse:{generatedSamples:[{video:{uri}}]}}, yields the uri
\* of the alternate shape {result:{generatedVideos:[{uri}]}}, and yields the
\* not-found value without an exception for {} and for an absent response
\* (the handler then answers that no uri was found, not from its catch block).
C15_ExtractKnownShapes ==
  [][(last'.act = "VideoAnswer" /\ last'.kind = "ok" /\ last'.done) =>
       /\ last'.body = Some(CanonicalResponse)
            => \E v \in videos' \ videos :
                 v.stage = "download" /\ v.uri = Some(CanonicalResponse.gvr)
       /\ last'.body = Some(AlternateResponse)
            => \E v \in videos' \ videos :
                 v.stage = "download" /\ v.uri = Some(AlternateResponse.resUri)
       /\ last'.body \in {null, Some(EmptyResponse)}
            => /\ response'.error = "Video URI not found in Veo response"
               /\ videos' \subseteq videos]_vars

\* C15 witness: the video handler has taken the uri out of a response of the
\* alternate shape.
C15_Witness ==
  /\ last.act = "VideoAnswer" /\ last.done
  /\ last.body = Some(AlternateResponse)
  /\ \E v \in videos : v.id = last.id /\ v.uri = Some("files/alt")

\* C16: a video request whose poll answers done=false is answered 202 'Video
\* not ready yet' and starts no download; and 202 is the answer of that case
\* only: a failed poll (the remote's own non-2xx code relayed, a remote 404
\* included, or the catch block's 500) and a done job without an extractable
\* uri (500) are answered otherwise.
C16_NotReadyIsDistinct ==
  [][/\ (last'.act = "VideoAnswer" /\ last'.kind = "ok" /\ ~last'.done)
          => /\ response'.handler = "video"
             /\ response'.code = 202
             /\ response'.error = "Video not ready yet"
             /\ videos' \subseteq videos
     /\ (response'.handler = "video" /\ response'.code = 202)
          => (last'.act = "VideoAnswer" /\ last'.kind = "ok" /\ ~last'.done)]_vars

\* C16 witness: a video request has been answered not ready.
C16_Witness ==
  /\ last.act = "VideoAnswer" /\ last.kind = "ok" /\ ~last.done
  /\ response.code = 202
  /\ videos = {}

\* the next firing of the interval of monitor m issues a poll: the timer runs
\* and the checks at the head of the callback let it through
NextTickPolls(m) ==
  monitors[m].active /\ ~MonitorStops(Get(monitors[m].id))

\* C17: the monitor of one operation issues at most maxAttempts polls,
\* whatever the remote answers and however late: once it has issued that many
\* its next firing issues none.
C17_PollsWithinCap ==
  \A m \in 1..Len(monitors) :
    monitors[m].polls >= maxAttempts => ~NextTickPolls(m)

\* C17, the remote answering non-2xx on every poll: the monitor whose polls
\* have all been answered that way is stopped once it has issued maxAttempts
\* of them.
C17_ErrorsEndPolling ==
  \A m \in 1..Len(monitors) :
    (/\ monitors[m].polls >= maxAttempts
     /\ InFlight(m) = {}
     /\ last.act = "TickAnswer" /\ last.kind = "http_error"
     /\ last.id = monitors[m].id)
      => ~NextTickPolls(m)

\* C18: the monitor of one operation has at most one poll in flight: no
\* firing of its interval starts a poll while an earlier one awaits its answer.
C18_OnePollInFlight ==
  \A m \in 1..Len(monitors) : Cardinality(InFlight(m)) <= 1

\* the fields of a record the poll transition is about
Outcome(obj) == <<obj.status, obj.videoUrl, obj.metadata>>

\* the transition of a processing record on the answer of a poll: done=true
\* completes it with the extracted uri and the response, anything else
\* leaves it as it is
Transition(obj, step) ==
  IF step.kind = "ok" /\ step.done
    THEN <<"completed", VideoUrlOf(step.body), step.body>>
    ELSE Outcome(obj)

\* C19: the status read path and the monitor tick apply the same transition:
\* whichever of them gets the answer of a poll of a processing operation, the
\* store then holds under its id the status, videoUrl and metadata that
\* Transition gives for the stored record and that answer.
C19_SameTransition ==
  [][\A id \in DOMAIN operations :
       (/\ last'.act \in PollActs /\ last'.id = id
        /\ StatusOf(id) = "processing")
         => /\ id \in DOMAIN operations'
            /\ Outcome(Stored(id)') = Transition(Stored(id), last')]_vars

\* C19 as far as it holds: the same, for a status read whose object is still
\* the one the store holds under the id.
C19_SameTransitionOnStored ==
  [][\A id \in DOMAIN operations :
       (/\ last'.act \in PollActs /\ last'.id = id
        /\ StatusOf(id) = "processing"
        /\ \A r \in reads \ reads' : r.stored = operations[id])
         => /\ id \in DOMAIN operations'
            /\ Outcome(Stored(id)') = Transition(Stored(id), last')]_vars

\* the fields of a record that are set at its creation
Frame(obj) ==
  <<obj.id, obj.visualPrompt, obj.audioPrompt, obj.duration, obj.aspectRatio,
    obj.createdAt>>

MonitorAndReadActs == {"Tick", "TickAnswer", "StatusRequest", "StatusAnswer"}

\* C20: no step of a monitor tick or of a status read changes the id,
\* visualPrompt, audioPrompt, duration, aspectRatio or createdAt of a stored
\* record, and a step for one id leaves the records under the other ids as
\* they are.
C20_FrameOfPolls ==
  [][last'.act \in MonitorAndReadActs =>
       \A id \in DOMAIN operations :
         /\ id \in DOMAIN operations'
         /\ Frame(Stored(id)') = Frame(Stored(id))
         /\ id # last'.id => Stored(id)' = Stored(id)]_vars

\* C20 as far as it holds: the same, for a tick whose object is still the one
\* the store holds under the id.
C20_FrameOfPollsOnStored ==
  [][(/\ last'.act \in MonitorAndReadActs
      /\ \A t \in ticks \ ticks' : t.stored = Get(last'.id)) =>
       \A id \in DOMAIN operations :
         /\ id \in DOMAIN operations'
         /\ Frame(Stored(id)') = Frame(Stored(id))
         /\ id # last'.id => Stored(id)' = Stored(id)]_vars

PollFailures == {"http_error", "throw"}

\* C21: a status read whose poll answers non-2xx or throws is answered with
\* a 5xx error and changes nothing: the store and the record of the operation
\* are as before (a processing operation stays processing) and the monitors
\* run on as they did.
C21_FailedReadChangesNothing ==
  [][\A id \in DOMAIN operations :
       (/\ HasStore
        /\ last'.act = "StatusAnswer" /\ last'.id = id
        /\ last'.kind \in PollFailures)
         => /\ response'.handler = "status"
            /\ response'.code \in 500..599
            /\ operations' = operations
            /\ Stored(id)' = Stored(id)
            /\ monitors' = monitors /\ ticks' = ticks]_vars

\* C21 witness: the poll of a status read of a processing operation has
\* failed; the operation is processing and its monitor runs.
C21_Witness ==
  /\ HasStore
  /\ last.act = "StatusAnswer" /\ last.kind \in PollFailures
  /\ response.code = 500
  /\ StatusOf(last.id) = "processing"
  /\ \E m \in 1..Len(monitors) : monitors[m].id = last.id /\ monitors[m].active

\* C22: in the store variants the entry of a new operation is in the store
\* when its operationId is returned, and no step removes an entry; so every
\* id returned so far is a key of the store, and a status read of such an id
\* is never answered not-found.
C22_IssuedIdStaysKnown ==
  [][HasStore =>
       /\ issued \subseteq DOMAIN operations
       /\ issued' \subseteq DOMAIN operations'
       /\ DOMAIN operations \subseteq DOMAIN operations'
       /\ (last'.act = "StatusRequest" /\ last'.id \in issued)
            => response'.code # 404]_vars

\* C22 witness: with two operations in the store, a status read of a returned
\* id has found its entry and polls for it.
C22_Witness ==
  /\ HasStore
  /\ Cardinality(DOMAIN operations) = 2
  /\ last.act = "StatusRequest" /\ last.id \in issued
  /\ \E r \in reads : r.id = last.id /\ r.stored = operations[last.id]

\* the download a step of the video handler has started
Started == {v \in videos' \ videos : v.stage = "download"}

\* C23: extractVideoUri tries the shapes in a fixed order.  Applied by the
\* video handler to a response that matches several of them, the uri at
\* generateVideoResponse.generatedSamples[0].video.uri is taken before the one
\* at result.generatedVideos[0].video.uri, and that before the one at
\* result.generatedVideos[0].uri; a shape whose uri is empty or missing is
\* passed over for the next.
C23_ShapesInOrder ==
  [][(/\ last'.act = "VideoAnswer" /\ last'.kind = "ok" /\ last'.done
      /\ last'.body # null) =>
       LET resp == last'.body[1]
           canonical == resp.samples = "array" /\ resp.gvr # ""
       IN  /\ canonical => \E v \in Started : v.uri = Some(resp.gvr)
           /\ (~canonical /\ resp.resVideo # "")
                => \E v \in Started : v.uri = Some(resp.resVideo)
           /\ (~canonical /\ resp.resVideo = "" /\ resp.resUri # "")
                => \E v \in Started : v.uri = Some(resp.resUri)]_vars

\* C23 witness: the video handler has been answered a response that matches
\* all three shapes and downloads the uri of the canonical one.
C23_Witness ==
  /\ last.act = "VideoAnswer" /\ last.done
  /\ last.body = Some(AllShapesResponse)
  /\ \E v \in videos : v.id = last.id /\ v.uri = Some("files/abc")

\* C24: in the stateless variant a download is started only by the step of
\* the video handler that gets a done=true answer with an extractable uri to
\* the poll of the same request, and it fetches exactly that uri; the
\* not-ready, poll-failure and no-artifact paths start none.
C24_DownloadAfterDone ==
  [][/\ \A v \in Started :
          /\ last'.act = "VideoAnswer" /\ last'.id = v.id
          /\ last'.kind = "ok" /\ last'.done
          /\ \E u \in videos \ videos' :
               u.stage = "poll" /\ u.n = v.n /\ u.id = v.id /\ u.name = v.name
          /\ extractVideoUri(last'.body) # null
          /\ v.url = Some(<<"BASE_URL", extractVideoUri(last'.body)[1]>>)
     /\ (/\ last'.act = "VideoAnswer"
         /\ \/ last'.kind # "ok"
            \/ ~last'.done
            \/ extractVideoUri(last'.body) = null)
          => Started = {}
     /\ \A v \in videos : v.stage = "download" => Truthy(v.uri)]_vars

\* C24 witness: after a done=true answer whose uri is found in the second
\* shape the video handler awaits the download of that uri.
C24_Witness ==
  /\ variant = "stateless"
  /\ last.act = "VideoAnswer" /\ last.kind = "ok" /\ last.done
  /\ \E v \in videos :
       /\ v.stage = "download" /\ v.id = last.id
       /\ v.url = Some(<<"BASE_URL", "files/mid">>)

\* C25: in the stateless variant the operationId round-trips.  For every
\* remote job name a submit returned, a status or video request with the
\* operationId generate returned for it (the encoded name, which belongs to
\* that name only) polls exactly that remote job name.
C25_IdRoundTrips ==
  [][\A name \in RemoteNames :
       LET id == encodeURIComponent(name)
       IN  (/\ variant = "stateless" /\ API_KEY
            /\ id \in issued /\ last'.id = id) =>
             /\ \A other \in RemoteNames :
                  encodeURIComponent(other) = id => other = name
             /\ last'.act = "StatusRequest"
                  => \E r \in reads' \ reads : r.id = id /\ r.name = name
             /\ last'.act = "VideoRequest"
                  => \E v \in videos' \ videos :
                       v.id = id /\ v.stage = "poll" /\ v.name = name]_vars

\* C25 witness: a status request with the operationId of a job name that has
\* a character to escape in it polls that name.
C25_Witness ==
  /\ variant = "stateless"
  /\ last.act = "StatusRequest"
  /\ last.id = <<"j", "%", "2", "5", "2">>
  /\ last.id \in issued
  /\ \E r \in reads : r.id = last.id /\ r.name = <<"j", "%", "2">>

====
